---- MODULE Spec2Model ----
(***************************************************************************)
(* Model of imgproc.py: the interactive loop of main, the batch runner     *)
(* ImageProcessor.process_images and ImageProcessor.organize_images, over  *)
(* a small file system.  File names and command lines are sequences of     *)
(* one-character strings, so that splitext, lower, split and the output    *)
(* naming conventions are computed as the code computes them.              *)
(***************************************************************************)
EXTENDS Integers, Sequences, FiniteSets, TLC

VARIABLES fs, cwd, sr, pc, cmdCount, console, parts, called, ret,
          operation, args, input_path, files, idx, progress, total,
          attempted, succeeded, pre

vars == <<fs, cwd, sr, pc, cmdCount, console, parts, called, ret,
          operation, args, input_path, files, idx, progress, total,
          attempted, succeeded, pre>>

(***************************************************************************)
(* Bounds of the model.                                                    *)
(***************************************************************************)
\* Largest number of entries of a directory when a loop over its listing
\* starts, and of the images directory at start.
MaxFiles == 2
\* Largest number of command lines the interactive loop reads in one run.
MaxCommands == 1

(***************************************************************************)
(* Strings as sequences of characters.                                     *)
(***************************************************************************)
UpperChars == <<"A","B","C","D","E","F","G","H","I","J","K","L","M",
                "N","O","P","Q","R","S","T","U","V","W","X","Y","Z">>
LowerChars == <<"a","b","c","d","e","f","g","h","i","j","k","l","m",
                "n","o","p","q","r","s","t","u","v","w","x","y","z">>

\* str.lower() on one character.
LowerChar(c) ==
  IF \E i \in DOMAIN UpperChars : UpperChars[i] = c
  THEN LowerChars[CHOOSE i \in DOMAIN UpperChars : UpperChars[i] = c]
  ELSE c

\* str.lower()
Lower(s) == [i \in DOMAIN s |-> LowerChar(s[i])]

\* str.split(): the maximal runs of non-blank characters, in order.
RECURSIVE SplitFrom(_, _, _)
SplitFrom(s, i, cur) ==
  IF i > Len(s)
  THEN IF cur = <<>> THEN <<>> ELSE <<cur>>
  ELSE IF s[i] = " "
       THEN IF cur = <<>> THEN SplitFrom(s, i + 1, <<>>)
            ELSE <<cur>> \o SplitFrom(s, i + 1, <<>>)
       ELSE SplitFrom(s, i + 1, Append(cur, s[i]))

Split(s) == SplitFrom(s, 1, <<>>)

\* os.path.splitext on a file name without directory part: the extension
\* starts at the last dot, unless only dots precede that dot.
LastDot(s) ==
  IF \E i \in DOMAIN s : s[i] = "."
  THEN CHOOSE i \in DOMAIN s : s[i] = "." /\ \A j \in DOMAIN s : s[j] = "." => j <= i
  ELSE 0

SplitExt(s) ==
  LET d == LastDot(s) IN
  IF d > 0 /\ \E j \in 1..(d - 1) : s[j] # "."
  THEN <<SubSeq(s, 1, d - 1), SubSeq(s, d, Len(s))>>
  ELSE <<s, <<>>>>

Digits == <<"0","1","2","3","4","5","6","7","8","9">>

IsDigit(c) == \E i \in DOMAIN Digits : Digits[i] = c

DigitVal(c) == (CHOOSE i \in DOMAIN Digits : Digits[i] = c) - 1

RECURSIVE NatVal(_)
NatVal(s) ==
  IF s = <<>> THEN 0
  ELSE 10 * NatVal(SubSeq(s, 1, Len(s) - 1)) + DigitVal(s[Len(s)])

AllDigits(s) == s # <<>> /\ \A i \in DOMAIN s : IsDigit(s[i])

\* int(token): an optional sign followed by decimal digits.
IntOk(s) ==
  \/ AllDigits(s)
  \/ Len(s) > 1 /\ s[1] \in {"+", "-"} /\ AllDigits(Tail(s))

IntVal(s) ==
  IF s[1] = "-" THEN 0 - NatVal(Tail(s))
  ELSE IF s[1] = "+" THEN NatVal(Tail(s))
  ELSE NatVal(s)

\* float(token): an optional sign, then digits with at most one decimal
\* point and at least one digit.
FloatOk(s) ==
  LET u == IF s # <<>> /\ s[1] \in {"+", "-"} THEN Tail(s) ELSE s
      dots == {i \in DOMAIN u : u[i] = "."}
  IN /\ Cardinality(dots) <= 1
     /\ \E i \in DOMAIN u : IsDigit(u[i])
     /\ \A i \in DOMAIN u : IsDigit(u[i]) \/ u[i] = "."


(***************************************************************************)
(* Names, tokens and command lines used as inputs.                         *)
(***************************************************************************)
N_ajpg == <<"a",".","j","p","g">>
N_apng == <<"a",".","p","n","g">>
N_bJPG == <<"b",".","J","P","G">>
N_ntxt == <<"n",".","t","x","t">>
N_jpg  == <<"j","p","g">>

TopNames == {N_ajpg, N_apng, N_bJPG, N_ntxt, N_jpg}

T_resize    == <<"r","e","s","i","z","e">>
T_convert   == <<"c","o","n","v","e","r","t">>
T_filter    == <<"f","i","l","t","e","r">>
T_enhance   == <<"e","n","h","a","n","c","e">>
T_organize  == <<"o","r","g","a","n","i","z","e">>
T_help      == <<"h","e","l","p">>
T_exit      == <<"e","x","i","t">>
T_rotate    == <<"r","o","t","a","t","e">>
T_Convert   == <<"C","o","n","v","e","r","t">>
T_PNG       == <<"P","N","G">>
T_xyz       == <<"x","y","z">>
T_grayscale == <<"g","r","a","y","s","c","a","l","e">>
T_sharpen   == <<"s","h","a","r","p","e","n">>
T_blur      == <<"b","l","u","r">>
T_abc       == <<"a","b","c">>
T_now       == <<"n","o","w">>
T_half      == <<"0",".","5">>

\* A command line as typed: the tokens separated by one blank.
RECURSIVE Join(_)
Join(toks) ==
  IF toks = <<>> THEN <<>>
  ELSE IF Len(toks) = 1 THEN toks[1]
  ELSE toks[1] \o <<" ">> \o Join(Tail(toks))

RawCommands ==
  { Join(<<T_resize, <<"2">>, <<"3">>>>),
    Join(<<T_resize, <<"x">>, <<"3">>>>),
    Join(<<T_resize, <<"0">>, <<"3">>>>),
    Join(<<T_resize, <<"2">>>>),
    <<" ">> \o Join(<<T_Convert, T_PNG>>),
    Join(<<T_convert, T_xyz>>),
    Join(<<T_convert>>),
    Join(<<T_filter, T_grayscale, T_half>>),
    Join(<<T_filter, T_blur, T_half>>),
    Join(<<T_filter, T_blur, T_abc>>),
    Join(<<T_filter, T_blur>>),
    Join(<<T_enhance>>),
    Join(<<T_enhance, T_now>>),
    Join(<<T_organize>>),
    Join(<<T_help>>),
    Join(<<T_exit>>),
    Join(<<T_rotate, <<"9">>>>),
    <<" ", " ">> }

\* The directory paths the user may answer the path prompt with: the images
\* directory, a path that does not exist, and a path of a regular file.
D_pics    == <<"pics">>
D_work    == <<"work">>
D_notes   == <<"notes">>
D_nowhere == <<"nowhere">>

PathAnswers == {D_pics, D_nowhere, D_notes}

(***************************************************************************)
(* The file system: a function from paths to nodes.                        *)
(***************************************************************************)
DirNode == [type |-> "dir", ok |-> FALSE, px |-> <<>>]

\* A regular file; ok says whether its bytes decode as an image.
FileNode(ok, px) == [type |-> "file", ok |-> ok, px |-> px]

Exists(f, p) == p \in DOMAIN f

IsDir(f, p) == IF Exists(f, p) THEN f[p].type = "dir" ELSE FALSE

\* os.path.join(path, file)
PathJoin(path, file) == Append(path, file)

\* os.path.basename(path)
Basename(path) == path[Len(path)]

\* os.listdir(path), as a set of names.
ListDir(f, path) ==
  { p[Len(p)] : p \in { q \in DOMAIN f :
                          /\ Len(q) = Len(path) + 1
                          /\ SubSeq(q, 1, Len(path)) = path } }

\* The orders in which a listing may come back.
RECURSIVE Orderings(_)
Orderings(S) ==
  IF S = {} THEN {<<>>}
  ELSE UNION { { <<x>> \o rest : rest \in Orderings(S \ {x}) } : x \in S }

\* Writing a file: creates it or replaces its content.
WriteFile(f, p, node) ==
  [q \in DOMAIN f \cup {p} |-> IF q = p THEN node ELSE f[q]]

RemovePath(f, p) == [q \in DOMAIN f \ {p} |-> f[q]]

\* What the images directory may hold at start.  The entry jpg is a regular
\* file, or a folder that holds a file a.jpg of an earlier run.
InitKinds(n) ==
  IF n = N_jpg THEN {"absent", "corrupt", "dirfull"}
  ELSE IF n = N_ntxt THEN {"absent", "corrupt"}
  ELSE IF n = N_apng THEN {"absent", "image"}
  ELSE {"absent", "image", "corrupt"}

InitNode(n, kind) ==
  IF kind = "dirfull" THEN DirNode
  ELSE IF kind = "image" THEN FileNode(TRUE, <<"orig", n>>)
  ELSE FileNode(FALSE, <<"raw", n>>)

InitFs(assign) ==
  LET top  == {n \in TopNames : assign[n] # "absent"}
      sub  == IF assign[N_jpg] = "dirfull" THEN {<<"pics", N_jpg, N_ajpg>>} ELSE {}
      dom  == {D_pics, D_work, D_notes} \cup {PathJoin(D_pics, n) : n \in top} \cup sub
  IN [p \in dom |->
        IF p \in {D_pics, D_work} THEN DirNode
        ELSE IF p = D_notes THEN FileNode(FALSE, <<"raw", <<"notes">>>>)
        ELSE IF p \in sub THEN FileNode(TRUE, <<"old", N_ajpg>>)
        ELSE InitNode(p[2], assign[p[2]])]

(***************************************************************************)
(* ImageProcessor.__init__                                                 *)
(***************************************************************************)
supported_formats ==
  { <<".","j","p","g">>, <<".","j","p","e","g">>, <<".","p","n","g">>, <<".","b","m","p">> }

filters == {<<"b","r","i","g","h","t","n","e","s","s">>,
            <<"c","o","n","t","r","a","s","t">>,
            T_sharpen, T_grayscale}

NoFile == <<>>

Notice(kind, file, reason) == [kind |-> kind, file |-> file, reason |-> reason]

Init ==
  /\ \E assign \in [TopNames -> {"absent", "image", "corrupt", "dirfull"}] :
       /\ \A n \in TopNames : assign[n] \in InitKinds(n)
       /\ Cardinality({n \in TopNames : assign[n] # "absent"}) <= MaxFiles
       /\ fs = InitFs(assign)
  /\ cwd \in {D_pics, D_work}
  /\ sr \in {"loaded", "None"}
  /\ pc = "prompt"
  /\ cmdCount = 0
  /\ console = <<>>
  /\ parts = <<>>
  /\ called = "none"
  /\ ret = "none"
  /\ operation = "none"
  /\ args = <<>>
  /\ input_path = <<>>
  /\ files = <<>>
  /\ idx = 1
  /\ progress = 0
  /\ total = 0
  /\ attempted = <<>>
  /\ succeeded = {}
  /\ pre = fs


(***************************************************************************)
(* The per-file step of process_images.                                    *)
(***************************************************************************)
\* The file extensions Image.save accepts, among those the inputs use.
SaveExtensions == supported_formats

\* The relative output name, resolved against the working directory.
OutputPath(name) == PathJoin(cwd, name)

Prefixed(prefix, file) == prefix \o file

P_resized  == <<"r","e","s","i","z","e","d","_">>
P_filtered == <<"f","i","l","t","e","r","e","d","_">>
P_enhanced == <<"e","n","h","a","n","c","e","d","_">>

Raised(reason) == [raise |-> reason, write |-> <<>>]
Saved(path, px) == [raise |-> "none", write |-> <<[path |-> path, node |-> FileNode(TRUE, px)]>>]
NothingSaved   == [raise |-> "none", write |-> <<>>]

\* Image.open / cv2.imread can decode the file at this path.
Decodable(f, p) == Exists(f, p) /\ f[p].type = "file" /\ f[p].ok

\* img.save(name): the format is chosen by the extension of the name.
SaveImage(name, px) ==
  IF Lower(SplitExt(name)[2]) \in SaveExtensions
  THEN Saved(OutputPath(name), px)
  ELSE Raised("unknown file extension")

enhance_image(f, img_path) ==
  IF sr = "None" THEN Raised("AI Enhancement model not available")
  ELSE IF ~Decodable(f, img_path) THEN Raised("Failed to load image")
  ELSE Saved(OutputPath(Prefixed(P_enhanced, Basename(img_path))),
             <<"enhance", f[img_path].px>>)

ResizeStep(f, image_path, file, a) ==
  IF ~(\A i \in DOMAIN a : IntOk(a[i])) THEN Raised("invalid literal for int()")
  ELSE IF IntVal(a[1]) <= 0 \/ IntVal(a[2]) <= 0
  THEN Raised("height and width must be > 0")
  ELSE SaveImage(Prefixed(P_resized, file),
                 <<"resize", IntVal(a[1]), IntVal(a[2]), f[image_path].px>>)

ConvertStep(f, image_path, file, a) ==
  LET new_format   == Lower(a[1])
      new_filename == SplitExt(file)[1] \o <<".">> \o new_format
  IN SaveImage(new_filename, <<"convert", new_format, f[image_path].px>>)

\* self.filters[filter_name](img, value)
ApplyFilter(filter_name, px, value) ==
  IF filter_name = T_grayscale THEN <<"L", px>>
  ELSE <<"enhancer", filter_name, value, px>>

\* Variant of FilterKnown that accepts every identifier.
FilterKnown_Always(filter_name) == TRUE

\* if filter_name in self.filters
FilterKnown(filter_name) == filter_name \in filters

FilterStep(f, image_path, file, a) ==
  IF ~FloatOk(a[2]) THEN Raised("could not convert string to float")
  ELSE IF FilterKnown(a[1])
       THEN SaveImage(Prefixed(P_filtered, file),
                      ApplyFilter(a[1], f[image_path].px, a[2]))
       ELSE NothingSaved

\* The body of the try block for one file, up to the call of progress.advance.
Attempt(f, file) ==
  LET image_path == PathJoin(input_path, file) IN
  IF operation = "enhance" THEN enhance_image(f, image_path)
  ELSE IF ~Decodable(f, image_path) THEN Raised("cannot identify image file")
  ELSE IF operation = "resize" THEN ResizeStep(f, image_path, file, args)
  ELSE IF operation = "convert" THEN ConvertStep(f, image_path, file, args)
  ELSE IF operation = "filter" THEN FilterStep(f, image_path, file, args)
  ELSE NothingSaved

ApplyWrite(f, r) ==
  IF r.write = <<>> THEN f ELSE WriteFile(f, r.write[1].path, r.write[1].node)

\* Variant of ProcessFile in which a failure ends the loop, as if the handler
\* enclosed the for statement.
ProcessFile_BreakOnError ==
  /\ pc = "loop"
  /\ idx <= Len(files)
  /\ LET file == files[idx]
         r    == Attempt(fs, file)
     IN /\ fs' = ApplyWrite(fs, r)
        /\ progress' = IF r.raise = "none" THEN progress + 1 ELSE progress
        /\ console' = IF r.raise = "none" THEN console
                      ELSE Append(console, Notice("file_error", file, r.raise))
        /\ attempted' = Append(attempted, file)
        /\ succeeded' = IF r.raise = "none" THEN succeeded \cup {file} ELSE succeeded
        /\ idx' = IF r.raise = "none" THEN idx + 1 ELSE Len(files) + 1
  /\ UNCHANGED <<cwd, sr, pc, cmdCount, parts, called, ret, operation, args,
                 input_path, files, total, pre>>

\* One iteration of the loop over files: the try block and its handler.
ProcessFile ==
  /\ pc = "loop"
  /\ idx <= Len(files)
  /\ LET file == files[idx]
         r    == Attempt(fs, file)
     IN /\ fs' = ApplyWrite(fs, r)
        /\ progress' = IF r.raise = "none" THEN progress + 1 ELSE progress
        /\ console' = IF r.raise = "none" THEN console
                      ELSE Append(console, Notice("file_error", file, r.raise))
        /\ attempted' = Append(attempted, file)
        /\ succeeded' = IF r.raise = "none" THEN succeeded \cup {file} ELSE succeeded
  /\ idx' = idx + 1
  /\ UNCHANGED <<cwd, sr, pc, cmdCount, parts, called, ret, operation, args,
                 input_path, files, total, pre>>

\* Variant of ProcessComplete that prints the closing notice only when every
\* candidate succeeded.
ProcessComplete_OnlyOnSuccess ==
  /\ pc = "loop"
  /\ idx > Len(files)
  /\ console' = IF progress = total
                THEN Append(console, Notice("complete", NoFile, ""))
                ELSE console
  /\ ret' = "complete"
  /\ pc' = "prompt"
  /\ UNCHANGED <<fs, cwd, sr, cmdCount, parts, called, operation, args, input_path,
                 files, idx, progress, total, attempted, succeeded, pre>>

\* The loop is exhausted: the closing notice, and the return to the prompt.
ProcessComplete ==
  /\ pc = "loop"
  /\ idx > Len(files)
  /\ console' = Append(console, Notice("complete", NoFile, ""))
  /\ ret' = "complete"
  /\ pc' = "prompt"
  /\ UNCHANGED <<fs, cwd, sr, cmdCount, parts, called, operation, args, input_path,
                 files, idx, progress, total, attempted, succeeded, pre>>

(***************************************************************************)
(* main: one command line, and the entry of process_images.                *)
(***************************************************************************)
\* parts = command.lower().split()
ParseCommand(raw) == Split(Lower(raw))

\* The parts of every command line of the inputs, computed once.
Parsed == [raw \in RawCommands |-> ParseCommand(raw)]

\* The if/elif chain that chooses what to call.
Route(p) ==
  IF p[1] = T_resize /\ Len(p) = 3 THEN "resize"
  ELSE IF p[1] = T_convert /\ Len(p) = 2 THEN "convert"
  ELSE IF p[1] = T_filter /\ Len(p) = 3 THEN "filter"
  ELSE IF p[1] = T_enhance THEN "enhance"
  ELSE IF p[1] = T_organize THEN "organize"
  ELSE "invalid"

RouteArgs(p) ==
  IF Route(p) \in {"resize", "filter"} THEN <<p[2], p[3]>>
  ELSE IF Route(p) = "convert" THEN <<p[2]>>
  ELSE <<>>

AtPrompt == pc = "prompt" /\ cmdCount < MaxCommands

IsBatchCommand(p) ==
  p # <<>> /\ p[1] \notin {T_exit, T_help} /\ Route(p) \notin {"organize", "invalid"}

\* The candidates of process_images: the entries with a supported extension.
Candidates(f, path) ==
  { n \in ListDir(f, path) : Lower(SplitExt(n)[2]) \in supported_formats }

\* What a command that runs no loop leaves behind.
NoLoop ==
  /\ files' = <<>>
  /\ idx' = 1
  /\ progress' = 0
  /\ total' = 0
  /\ attempted' = <<>>
  /\ succeeded' = {}
  /\ pre' = fs

Enter(raw) ==
  /\ parts' = Parsed[raw]
  /\ cmdCount' = cmdCount + 1

EmptyCommand ==
  /\ AtPrompt
  /\ \E raw \in RawCommands :
       /\ Parsed[raw] = <<>>
       /\ Enter(raw)
  /\ console' = <<>>
  /\ called' = "none" /\ ret' = "none" /\ operation' = "none"
  /\ args' = <<>> /\ input_path' = <<>>
  /\ NoLoop
  /\ UNCHANGED <<fs, cwd, sr, pc>>

ExitCommand ==
  /\ AtPrompt
  /\ \E raw \in RawCommands :
       /\ Parsed[raw] # <<>>
       /\ Parsed[raw][1] = T_exit
       /\ Enter(raw)
  /\ console' = <<Notice("goodbye", NoFile, "")>>
  /\ pc' = "exited"
  /\ called' = "none" /\ ret' = "none" /\ operation' = "none"
  /\ args' = <<>> /\ input_path' = <<>>
  /\ NoLoop
  /\ UNCHANGED <<fs, cwd, sr>>

HelpCommand ==
  /\ AtPrompt
  /\ \E raw \in RawCommands :
       /\ Parsed[raw] # <<>>
       /\ Parsed[raw][1] = T_help
       /\ Enter(raw)
  /\ console' = <<Notice("help", NoFile, "")>>
  /\ called' = "show_help" /\ ret' = "none" /\ operation' = "none"
  /\ args' = <<>> /\ input_path' = <<>>
  /\ NoLoop
  /\ UNCHANGED <<fs, cwd, sr, pc>>

InvalidCommand ==
  /\ AtPrompt
  /\ \E raw \in RawCommands :
       LET p == Parsed[raw] IN
       /\ p # <<>>
       /\ p[1] \notin {T_exit, T_help}
       /\ Route(p) = "invalid"
       /\ Enter(raw)
  /\ console' = <<Notice("invalid", NoFile, "")>>
  /\ called' = "none" /\ ret' = "none" /\ operation' = "none"
  /\ args' = <<>> /\ input_path' = <<>>
  /\ NoLoop
  /\ UNCHANGED <<fs, cwd, sr, pc>>

\* Prompt.ask is interrupted: the handler reports it and the loop goes on.
Interrupt ==
  /\ AtPrompt
  /\ cmdCount' = cmdCount + 1
  /\ parts' = <<>>
  /\ console' = <<Notice("cancelled", NoFile, "")>>
  /\ called' = "none" /\ ret' = "none" /\ operation' = "none"
  /\ args' = <<>> /\ input_path' = <<>>
  /\ NoLoop
  /\ UNCHANGED <<fs, cwd, sr, pc>>

CallProcessImages(raw, path) ==
  LET p == Parsed[raw] IN
  /\ AtPrompt
  /\ IsBatchCommand(p)
  /\ Enter(raw)
  /\ called' = "process_images"
  /\ operation' = Route(p)
  /\ args' = RouteArgs(p)
  /\ input_path' = path
  /\ pre' = fs
  /\ attempted' = <<>>
  /\ succeeded' = {}
  /\ idx' = 1
  /\ progress' = 0
  /\ UNCHANGED <<fs, cwd, sr>>

\* The path does not exist.
ProcessImagesMissing ==
  \E raw \in RawCommands, path \in PathAnswers :
    /\ CallProcessImages(raw, path)
    /\ ~Exists(fs, path)
    /\ console' = <<Notice("path_missing", NoFile, "")>>
    /\ ret' = "missing"
    /\ files' = <<>> /\ total' = 0
    /\ UNCHANGED pc

\* The path exists and is no directory: os.listdir raises, and the handler of
\* main reports the error.
ProcessImagesListFails ==
  \E raw \in RawCommands, path \in PathAnswers :
    /\ CallProcessImages(raw, path)
    /\ Exists(fs, path) /\ ~IsDir(fs, path)
    /\ console' = <<Notice("error", NoFile, "Not a directory")>>
    /\ ret' = "raised"
    /\ files' = <<>> /\ total' = 0
    /\ UNCHANGED pc

\* Variant of ProcessImagesEmpty without the return: the empty loop runs.
ProcessImagesEmpty_NoReturn ==
  \E raw \in RawCommands, path \in PathAnswers :
    /\ CallProcessImages(raw, path)
    /\ IsDir(fs, path)
    /\ Candidates(fs, path) = {}
    /\ console' = <<Notice("no_images", NoFile, "")>>
    /\ ret' = "none"
    /\ files' = <<>> /\ total' = 0
    /\ pc' = "loop"

\* The directory holds no file with a supported extension.
ProcessImagesEmpty ==
  \E raw \in RawCommands, path \in PathAnswers :
    /\ CallProcessImages(raw, path)
    /\ IsDir(fs, path)
    /\ Candidates(fs, path) = {}
    /\ console' = <<Notice("no_images", NoFile, "")>>
    /\ ret' = "empty"
    /\ files' = <<>> /\ total' = 0
    /\ UNCHANGED pc

\* The listing is taken and the progress task is added.
ProcessImagesStart ==
  \E raw \in RawCommands, path \in PathAnswers :
    /\ CallProcessImages(raw, path)
    /\ IsDir(fs, path)
    /\ Candidates(fs, path) # {}
    /\ Cardinality(ListDir(fs, path)) <= MaxFiles
    /\ \E order \in Orderings(Candidates(fs, path)) :
         /\ files' = order
         /\ total' = Len(order)
    /\ console' = <<>>
    /\ ret' = "none"
    /\ pc' = "loop"

(***************************************************************************)
(* organize_images, called from main.                                      *)
(***************************************************************************)
CallOrganize(raw, path) ==
  LET p == Parsed[raw] IN
  /\ AtPrompt
  /\ p # <<>>
  /\ p[1] \notin {T_exit, T_help}
  /\ Route(p) = "organize"
  /\ Enter(raw)
  /\ called' = "organize_images"
  /\ operation' = "organize"
  /\ args' = <<>>
  /\ input_path' = path
  /\ pre' = fs
  /\ attempted' = <<>>
  /\ succeeded' = {}
  /\ idx' = 1
  /\ progress' = 0
  /\ total' = 0
  /\ UNCHANGED <<fs, cwd, sr>>

\* os.listdir raises for a missing path and for a path that is no directory;
\* the handler of main reports the error.
OrganizeListFails ==
  \E raw \in RawCommands, path \in PathAnswers :
    /\ CallOrganize(raw, path)
    /\ ~IsDir(fs, path)
    /\ console' = <<Notice("error", NoFile, "listdir failed")>>
    /\ ret' = "raised"
    /\ files' = <<>>
    /\ UNCHANGED pc

OrganizeStart ==
  \E raw \in RawCommands, path \in PathAnswers :
    /\ CallOrganize(raw, path)
    /\ IsDir(fs, path)
    /\ Cardinality(ListDir(fs, path)) <= MaxFiles
    /\ files' \in Orderings(ListDir(fs, path))
    /\ console' = <<>>
    /\ ret' = "none"
    /\ pc' = "organize"

\* ext = os.path.splitext(file)[1].lower()
ExtOf(file) == Lower(SplitExt(file)[2])

\* Variant of FolderName that keeps the case of the extension.
FolderName_KeepCase(file) == Tail(SplitExt(file)[2])

\* folder_name = ext[1:]
FolderName(file) == Tail(ExtOf(file))

\* if not os.path.exists(folder_path): os.makedirs(folder_path)
EnsureFolder(f, folder_path) ==
  IF Exists(f, folder_path) THEN f ELSE WriteFile(f, folder_path, DirNode)

\* os.rename(src, dst) can succeed: the parent of dst is a directory and dst
\* is not one.  An existing regular file at dst is replaced.
RenamePossible(f, src, dst) ==
  /\ IsDir(f, SubSeq(dst, 1, Len(dst) - 1))
  /\ Exists(f, dst) => f[dst].type = "file"

Rename(f, src, dst) == RemovePath(WriteFile(f, dst, f[src]), src)

\* One iteration of the loop of organize_images that does not raise.
OrganizeStep ==
  /\ pc = "organize"
  /\ idx <= Len(files)
  /\ LET file        == files[idx]
         folder_path == PathJoin(input_path, FolderName(file))
         src         == PathJoin(input_path, file)
         dst         == PathJoin(folder_path, file)
         f1          == EnsureFolder(fs, folder_path)
     IN IF ExtOf(file) \in supported_formats
        THEN /\ RenamePossible(f1, src, dst)
             /\ fs' = Rename(f1, src, dst)
             /\ succeeded' = succeeded \cup {file}
        ELSE /\ fs' = fs
             /\ succeeded' = succeeded
  /\ attempted' = Append(attempted, files[idx])
  /\ idx' = idx + 1
  /\ UNCHANGED <<cwd, sr, pc, cmdCount, console, parts, called, ret, operation, args,
                 input_path, files, progress, total, pre>>

\* Variant of OrganizeRaises in which the failure is caught and reported per
\* file, and the loop goes on.
OrganizeRaises_Caught ==
  /\ pc = "organize"
  /\ idx <= Len(files)
  /\ ExtOf(files[idx]) \in supported_formats
  /\ fs' = EnsureFolder(fs, PathJoin(input_path, FolderName(files[idx])))
  /\ attempted' = Append(attempted, files[idx])
  /\ console' = Append(console, Notice("error", NoFile, "rename failed"))
  /\ idx' = idx + 1
  /\ UNCHANGED <<cwd, sr, pc, cmdCount, parts, called, ret, operation, args,
                 input_path, files, progress, total, succeeded, pre>>

\* os.rename raises (the destination cannot be written, or the move is
\* refused): nothing in organize_images catches it, the handler of main
\* reports the error, and the success notice is skipped.
OrganizeRaises ==
  /\ pc = "organize"
  /\ idx <= Len(files)
  /\ ExtOf(files[idx]) \in supported_formats
  /\ fs' = EnsureFolder(fs, PathJoin(input_path, FolderName(files[idx])))
  /\ attempted' = Append(attempted, files[idx])
  /\ console' = Append(console, Notice("error", NoFile, "rename failed"))
  /\ ret' = "raised"
  /\ pc' = "prompt"
  /\ UNCHANGED <<cwd, sr, cmdCount, parts, called, operation, args, input_path,
                 files, idx, progress, total, succeeded, pre>>

\* organize_images returns and main prints the success notice.
OrganizeDone ==
  /\ pc = "organize"
  /\ idx > Len(files)
  /\ console' = Append(console, Notice("organized", NoFile, ""))
  /\ ret' = "organized"
  /\ pc' = "prompt"
  /\ UNCHANGED <<fs, cwd, sr, cmdCount, parts, called, operation, args, input_path,
                 files, idx, progress, total, attempted, succeeded, pre>>

Next ==
  \/ EmptyCommand
  \/ ExitCommand
  \/ HelpCommand
  \/ InvalidCommand
  \/ Interrupt
  \/ ProcessImagesMissing
  \/ ProcessImagesListFails
  \/ ProcessImagesEmpty
  \/ ProcessImagesStart
  \/ ProcessFile
  \/ ProcessComplete
  \/ OrganizeListFails
  \/ OrganizeStart
  \/ OrganizeStep
  \/ OrganizeRaises
  \/ OrganizeDone

Spec == Init /\ [][Next]_vars


(***************************************************************************)
(* Properties.                                                             *)
(***************************************************************************)
HasNotice(kind) == \E k \in DOMAIN console : console[k].kind = kind

NoticeCount(kind) == Cardinality({k \in DOMAIN console : console[k].kind = kind})

Reported(file) ==
  \E k \in DOMAIN console :
    console[k].kind = "file_error" /\ console[k].file = file /\ console[k].reason # ""

InBatch == called = "process_images" /\ (pc = "loop" \/ ret = "complete")

\* C1: every candidate of the listing is attempted exactly once, in listing
\* order, whichever candidates fail; a failure never keeps a later candidate
\* from being attempted; every failing candidate is reported with its file
\* name and a reason.
C1_FailureIsolation ==
  InBatch =>
    /\ \A i, j \in DOMAIN files : files[i] = files[j] => i = j
    /\ {files[i] : i \in DOMAIN files} = Candidates(pre, input_path)
    /\ attempted = SubSeq(files, 1, idx - 1)
    /\ ret = "complete" => attempted = files
    /\ \A i \in DOMAIN attempted : attempted[i] \notin succeeded => Reported(attempted[i])

\* A batch returned in which a failing candidate precedes a succeeding one.
C1_Witness ==
  /\ called = "process_images" /\ ret = "complete"
  /\ \E i, j \in DOMAIN files :
       i < j /\ files[i] \notin succeeded /\ files[j] \in succeeded

\* C2 (as claimed): while and after process_images runs, every file that was a
\* candidate when the batch started still exists with the content it had then.
C2_SourcesUntouched ==
  called = "process_images" =>
    \A n \in Candidates(pre, input_path) :
      /\ Exists(fs, PathJoin(input_path, n))
      /\ fs[PathJoin(input_path, n)] = pre[PathJoin(input_path, n)]

\* The output name the naming convention gives a candidate.
ConventionName(file) ==
  IF operation = "resize" THEN P_resized \o file
  ELSE IF operation = "filter" THEN P_filtered \o file
  ELSE IF operation = "enhance" THEN P_enhanced \o file
  ELSE SubSeq(file, 1, LastDot(file)) \o Lower(args[1])

\* The transform of a candidate's content under the batch's operation.
TransformOf(px) ==
  IF operation = "resize" THEN <<"resize", IntVal(args[1]), IntVal(args[2]), px>>
  ELSE IF operation = "filter" THEN ApplyFilter(args[1], px, args[2])
  ELSE IF operation = "enhance" THEN <<"enhance", px>>
  ELSE <<"convert", Lower(args[1]), px>>

\* C3 (as claimed, for the batches whose operation writes an output): when
\* process_images returns, the output file of every succeeding candidate
\* exists under the conventional name and holds the transform of that
\* candidate, not of another candidate of the batch.
C3_OutputsCorrect ==
  (called = "process_images" /\ ret = "complete"
     /\ ~(operation = "filter" /\ args[1] \notin filters)) =>
    \A n \in succeeded :
      LET out == PathJoin(cwd, ConventionName(n)) IN
      /\ Exists(fs, out)
      /\ fs[out].px = TransformOf(pre[PathJoin(input_path, n)].px)

\* C4 (as claimed): progress advances once per attempted candidate, failed or
\* not, and equals the task total when the loop is over.
C4_ProgressCountsAll ==
  InBatch =>
    /\ progress = Len(attempted)
    /\ ret = "complete" => progress = total

\* The extension the claim speaks of: the name from its last dot on.
ClaimedExt(n) == IF LastDot(n) = 0 THEN <<>> ELSE SubSeq(n, LastDot(n), Len(n))

\* C5: a missing directory, or one without any file of a recognized
\* extension, gives exactly one notice (the error, resp. the nothing-found
\* notice), no attempt, no change of the file system and no closing notice.
C5_BatchAbort ==
  LET missing == ~Exists(pre, input_path)
      nothing == /\ IsDir(pre, input_path)
                 /\ \A n \in ListDir(pre, input_path) :
                      Lower(ClaimedExt(n)) \notin supported_formats
  IN (called = "process_images" /\ (missing \/ nothing)) =>
       /\ Len(console) = 1
       /\ missing => console[1].kind = "path_missing"
       /\ nothing => console[1].kind = "no_images"
       /\ attempted = <<>>
       /\ fs = pre
       /\ ~HasNotice("complete")
       /\ pc = "prompt"

\* process_images returned from a directory that holds entries, none of them
\* with a recognized extension.
C5_Witness ==
  /\ called = "process_images" /\ ret = "empty"
  /\ ListDir(pre, input_path) # {}

\* The folder the claim names for a file: its extension, lower-cased, without
\* the dot.
ClaimedFolder(n) == Lower(Tail(ClaimedExt(n)))

\* C6: after organize completes, every top-level entry with a recognized
\* extension is in the subfolder named by its lower-cased extension without
\* the dot, none remains at the top level, and the subfolders holding moved
\* files are exactly one per distinct extension present.
C6_OrganizeRoutes ==
  (called = "organize_images" /\ ret = "organized") =>
    LET cands == Candidates(pre, input_path) IN
    /\ \A n \in cands :
         /\ ~Exists(fs, PathJoin(input_path, n))
         /\ Exists(fs, PathJoin(PathJoin(input_path, ClaimedFolder(n)), n))
         /\ fs[PathJoin(PathJoin(input_path, ClaimedFolder(n)), n)] = pre[PathJoin(input_path, n)]
    /\ Candidates(fs, input_path) = {}
    /\ succeeded = cands
    /\ { d \in ListDir(fs, input_path) :
           \E n \in succeeded : Exists(fs, PathJoin(PathJoin(input_path, d), n)) }
       = { ClaimedFolder(n) : n \in cands }

\* organize completed on a directory with an upper-case and a lower-case
\* extension.
C6_Witness ==
  /\ called = "organize_images" /\ ret = "organized"
  /\ {N_apng, N_bJPG} \subseteq succeeded

\* The number of arguments the command table requires.
RequiredArgs(tok) ==
  IF tok = T_resize THEN 2
  ELSE IF tok = T_convert THEN 1
  ELSE IF tok = T_filter THEN 2
  ELSE 0

\* C7 (as claimed): an unrecognized command token, or resize, convert,
\* filter, enhance or organize with a wrong number of arguments, is reported
\* as invalid and calls neither process_images nor organize_images.
C7_InvalidNoAction ==
  LET wrong ==
        /\ parts # <<>>
        /\ \/ parts[1] \notin {T_resize, T_convert, T_filter, T_enhance, T_organize,
                               T_help, T_exit}
           \/ /\ parts[1] \in {T_resize, T_convert, T_filter, T_enhance, T_organize}
              /\ Len(parts) - 1 # RequiredArgs(parts[1])
  IN wrong =>
       /\ called = "none"
       /\ console = <<Notice("invalid", NoFile, "")>>

UnknownFilterBatch ==
  called = "process_images" /\ operation = "filter" /\ args[1] \notin filters

\* C8 (as claimed, for the candidates that open as images): in a filter batch
\* with an unknown filter identifier no candidate produces an output file
\* and no failure is reported for it, whatever the intensity argument.
C8_UnknownFilterSilent ==
  UnknownFilterBatch =>
    /\ fs = pre
    /\ \A i \in DOMAIN attempted :
         pre[PathJoin(input_path, attempted[i])].ok => ~Reported(attempted[i])

\* C8 (amended): in a filter batch with an unknown filter identifier no
\* candidate produces an output file, whatever the intensity argument; a
\* failure is reported for exactly the attempted candidates that cannot be
\* opened as an image or whose batch has an intensity that is no number.
C8_UnknownFilterAmended ==
  UnknownFilterBatch =>
    /\ fs = pre
    /\ \A i \in DOMAIN attempted :
         Reported(attempted[i]) <=>
           \/ ~pre[PathJoin(input_path, attempted[i])].ok
           \/ ~FloatOk(args[2])

\* An unknown-filter batch returned in which a readable candidate was
\* attempted with a numeric intensity.
C8_Witness ==
  /\ UnknownFilterBatch /\ ret = "complete"
  /\ FloatOk(args[2])
  /\ \E i \in DOMAIN attempted : pre[PathJoin(input_path, attempted[i])].ok

\* C9: once the loop over the candidates has started, the closing notice is
\* emitted exactly once, as the last notice, only after the last candidate
\* was attempted, and whatever the candidates' outcomes.  While the loop
\* runs, its position is one past the candidates attempted so far.
C9_CompleteOnce ==
  (called = "process_images" /\ files # <<>>) =>
    /\ NoticeCount("complete") <= 1
    /\ HasNotice("complete") =>
         /\ attempted = files
         /\ console[Len(console)].kind = "complete"
    /\ pc = "prompt" => NoticeCount("complete") = 1
    /\ pc = "loop" =>
         /\ idx = Len(attempted) + 1
         /\ idx <= Len(files) + 1

\* A batch returned in which every candidate failed.
C9_Witness ==
  /\ called = "process_images" /\ ret = "complete"
  /\ Len(files) >= 2
  /\ succeeded = {}

\* C10: a failing move in organize is not isolated: the error leaves
\* organize_images, the REPL reports it without the success notice, the files
\* already moved stay in their subfolders and no later file is moved.
C10_OrganizeAborts ==
  (called = "organize_images" /\ attempted # <<>> /\ HasNotice("error")) =>
    LET i == Len(attempted) IN
    /\ pc = "prompt"
    /\ NoticeCount("error") = 1
    /\ ~HasNotice("organized")
    /\ files[i] \notin succeeded
    /\ \A j \in DOMAIN files :
         j >= i =>
           /\ files[j] \notin succeeded
           /\ Exists(fs, PathJoin(input_path, files[j]))
           /\ fs[PathJoin(input_path, files[j])] = pre[PathJoin(input_path, files[j])]
    /\ \A n \in succeeded :
         /\ ~Exists(fs, PathJoin(input_path, n))
         /\ fs[PathJoin(PathJoin(input_path, ClaimedFolder(n)), n)] = pre[PathJoin(input_path, n)]

\* A move failed before another recognized file of the listing was reached.
C10_Witness ==
  /\ called = "organize_images" /\ HasNotice("error")
  /\ attempted # <<>>
  /\ \E j \in DOMAIN files :
       j > Len(attempted) /\ files[j] \in Candidates(pre, input_path)

====
